---- MODULE Spec2Model ----
(***************************************************************************)
(* Model of the Syncthing integration plugin: the conflict-resolution      *)
(* modal (DiffModal), the REST datasource (SyncthingFromREST) and the      *)
(* repository facade (SyncThingRepositoryImpl).                            *)
(*                                                                         *)
(* The vault is a map from paths to contents.  vault.delete and            *)
(* fileManager.renameFile return promises: a call only ISSUES the          *)
(* operation, the store executes it in a later step, in any order          *)
(* relative to the other operations in flight.                             *)
(***************************************************************************)
EXTENDS Integers, Sequences, FiniteSets, TLC

\* ------------------------------------------------------------------ bounds
MaxFolders   == 2      \* folders in a /rest/config/folders answer
MaxRes       == 2      \* resolution clicks (Accept left / Accept original)

\* ------------------------------------------------------- program constants
DeleteNoticeDelay   == 500     \* setTimeout of "Deleting ..." (accept left)
RenameNoticeDelay   == 1000    \* setTimeout of "Renaming ..." (accept left)
ResolvedNoticeDelay == 2000    \* setTimeout of "Conflict resolved ..."
OriginalDeleteNoticeDelay == 1000  \* setTimeout of "Deleting ..." (accept original)

\* ------------------------------------------------------------------- files
Bases == {"note"}

\* A TFile, identified by its path: base name plus conflict marker
\* (marker 0: the name carries no conflict marker).
Markers == {0, 1}

FileRef == [base : Bases, marker : Markers]

NoFile == [base |-> "", marker |-> 0]

Absent == NoFile

\* file.stat.mtime: the conflict marker embeds the conflict's timestamp.
mtime(f) == f.marker

Present(st, f) == st[f] # Absent

\* this.conflictingFiles.sort((a, b) => a.stat.mtime - b.stat.mtime)
RECURSIVE InsertByMtime(_, _)
InsertByMtime(f, s) ==
    IF s = <<>> THEN <<f>>
    ELSE IF mtime(f) < mtime(Head(s)) THEN <<f>> \o s
    ELSE <<Head(s)>> \o InsertByMtime(f, Tail(s))

RECURSIVE SortByMtime(_)
SortByMtime(s) ==
    IF s = <<>> THEN <<>> ELSE InsertByMtime(Head(s), SortByMtime(Tail(s)))

RECURSIVE SetToSeq(_)
SetToSeq(S) ==
    IF S = {} THEN <<>>
    ELSE LET x == CHOOSE y \in S : \A z \in S : mtime(z) >= mtime(y)
         IN  SetToSeq(S \ {x}) \o <<x>>

Range(s) == {s[i] : i \in 1..Len(s)}

\* SyncthingController.getDiffFiles(file): the conflict group of `file` as
\* the scanner reports it.  The unmarked file is the original; when it is
\* gone the oldest remaining file is the current base.  A group without a
\* conflict is no conflict: a not-found Failure.
GroupMembers(st, f) == {p \in FileRef : p.base = f.base /\ Present(st, p)}

GroupOriginal(st, f) ==
    LET ms == GroupMembers(st, f)
    IN  IF ms = {} THEN f
        ELSE CHOOSE p \in ms : \A q \in ms : mtime(p) <= mtime(q)

getDiffFiles(st, f) ==
    LET orig  == GroupOriginal(st, f)
        confs == GroupMembers(st, f) \ {orig}
    IN  IF confs = {}
        THEN [originalFile |-> orig, conflictingFiles |-> <<>>,
              failure |-> "not-found"]
        ELSE [originalFile |-> orig, conflictingFiles |-> SetToSeq(confs),
              failure |-> ""]

\* ------------------------------------------------------------------- state
VARIABLES
    store,      \* the vault: FileRef -> content (the file it was written as) or Absent
    modals,     \* the DiffModal objects
    res,        \* the resolutions started, in click order
    restCall    \* the last call of the REST datasource / repository facade

vars == <<store, modals, res, restCall>>

\* The DiffModal under study: one modal object, opened on a file of the vault.
Modals == {1}

UnusedModal ==
    [st |-> "unused", originalFile |-> NoFile, conflictingFiles |-> <<>>,
     failure |-> "", file |-> NoFile, currentConflictFile |-> NoFile,
     d2hColorBlind |-> FALSE, panes |-> FALSE]

NoCall == [method |-> "", pc |-> "idle"]

InitStore == [f \in FileRef |-> f]

Init ==
    /\ store = InitStore
    /\ modals = [m \in Modals |-> UnusedModal]
    /\ res = <<>>
    /\ restCall = NoCall

\* ---------------------------------------------------------------- DiffModal
\* constructor(app, file, syncthingController)
Constructor(f) ==
    [UnusedModal EXCEPT !.st = "closed", !.file = f, !.originalFile = f,
                        !.currentConflictFile = f]

\* onOpen(): fetch the group of this.file; a Failure shows the "Try again"
\* view and returns before any resolution button exists.
onOpen(md, st) ==
    LET r == getDiffFiles(st, md.file)
    IN  IF r.failure # ""
        THEN [md EXCEPT !.st = "failure", !.originalFile = r.originalFile,
                        !.conflictingFiles = <<>>, !.failure = r.failure]
        ELSE [md EXCEPT !.st = "open", !.originalFile = r.originalFile,
                        !.conflictingFiles = SortByMtime(r.conflictingFiles),
                        !.failure = ""]

\* new DiffModal(app, file, controller).open() on a file of the vault.
OpenModal(m, f) ==
    /\ modals[m].st = "unused"
    /\ \A k \in Modals : k < m => modals[k].st # "unused"
    /\ Present(store, f)
    /\ modals' = [modals EXCEPT ![m] = onOpen(Constructor(f), store)]
    /\ UNCHANGED <<store, res, restCall>>

\* "Try again" of the failure view: this.close(); this.open().
TryAgain(m) ==
    /\ modals[m].st = "failure"
    /\ modals' = [modals EXCEPT ![m] = onOpen(modals[m], store)]
    /\ UNCHANGED <<store, res, restCall>>

\* "Resolve conflict" of the i-th conflicting file: select it, then
\* this.close(); this.open().
SelectConflict(m, i) ==
    /\ modals[m].st = "open"
    /\ i \in 1..Len(modals[m].conflictingFiles)
    /\ LET sel == [modals[m] EXCEPT
                       !.currentConflictFile = modals[m].conflictingFiles[i]]
       IN  modals' = [modals EXCEPT ![m] = onOpen(sel, store)]
    /\ UNCHANGED <<store, res, restCall>>

\* "Enable colorblind mode" toggle of the modal: set the flag, then
\* this.close(); this.open().
ToggleColorBlind(m) ==
    /\ modals[m].st = "open"
    /\ LET tg == [modals[m] EXCEPT !.d2hColorBlind = ~modals[m].d2hColorBlind]
       IN  modals' = [modals EXCEPT ![m] = onOpen(tg, store)]
    /\ UNCHANGED <<store, res, restCall>>

\* -------------------------------------------------------------- resolutions
\* new Notice(text, 5000); subject and target are the paths the text
\* interpolates.
Notice(msg, subject, target) == [msg |-> msg, subject |-> subject, target |-> target]

\* A resolution click.  del / ren: "none", "pending", "ok", "failed" (the
\* promise of vault.delete / fileManager.renameFile).  original, chosenText,
\* delAtRename and targetFreeAtRename record what the handler saw when it ran.
NewResolution(m, kind, md, st) ==
    [kind |-> kind, modal |-> m,
     original |-> md.originalFile, chosen |-> md.currentConflictFile,
     chosenText |-> st[md.currentConflictFile],
     delFile |-> NoFile, del |-> "none",
     renFile |-> NoFile, renTo |-> NoFile, ren |-> "none",
     delAtRename |-> "none", targetFreeAtRename |-> FALSE,
     timers |-> {}, notices |-> <<>>]

\* this.app.vault.delete(file): the promise is not awaited.
IssueDelete(r, f) == [r EXCEPT !.delFile = f, !.del = "pending"]

\* this.app.fileManager.renameFile(file, newPath): the promise is not awaited.
IssueRename(r, f, to, st) ==
    [r EXCEPT !.renFile = f, !.renTo = to, !.ren = "pending",
              !.delAtRename = r.del,
              !.targetFreeAtRename = ~Present(st, to)]

Emit(r, n) == [r EXCEPT !.notices = Append(r.notices, n)]

SetTimeout(r, delay) == [r EXCEPT !.timers = r.timers \cup {delay}]

\* "Accept left" onClick.
AcceptLeftHandler(m, md, st) ==
    LET filenamePath == md.originalFile
        r0 == Emit(NewResolution(m, "left", md, st),
                   Notice("Resolving conflict : Accepting left", NoFile, NoFile))
        r1 == SetTimeout(r0, DeleteNoticeDelay)
        r2 == IssueDelete(r1, md.originalFile)
        r3 == SetTimeout(r2, RenameNoticeDelay)
        r4 == IssueRename(r3, md.currentConflictFile, filenamePath, st)
    IN  SetTimeout(r4, ResolvedNoticeDelay)

AcceptLeft(m) ==
    /\ modals[m].st = "open"
    /\ Len(res) < MaxRes
    /\ res' = Append(res, AcceptLeftHandler(m, modals[m], store))
    /\ modals' = [modals EXCEPT ![m].st = "closed",
                                ![m].originalFile = modals[m].currentConflictFile]
    /\ UNCHANGED <<store, restCall>>

\* "Accept original" onClick.
AcceptOriginalHandler(m, md, st) ==
    LET r0 == Emit(NewResolution(m, "original", md, st),
                   Notice("Resolving conflict : Accepting original", NoFile, NoFile))
        r1 == SetTimeout(r0, OriginalDeleteNoticeDelay)
    IN  IssueDelete(r1, md.currentConflictFile)

AcceptOriginal(m) ==
    /\ modals[m].st = "open"
    /\ Len(res) < MaxRes
    /\ res' = Append(res, AcceptOriginalHandler(m, modals[m], store))
    /\ modals' = [modals EXCEPT ![m].st = "closed"]
    /\ UNCHANGED <<store, restCall>>

\* The callback of the earliest pending setTimeout of resolution r.  The
\* callbacks read this.currentConflictFile when they run.
Min(S) == CHOOSE x \in S : \A y \in S : x <= y

TimerNotice(r, delay, md) ==
    IF r.kind = "original"
    THEN Notice("Deleting", md.currentConflictFile, NoFile)
    ELSE IF delay = DeleteNoticeDelay THEN Notice("Deleting", r.renTo, NoFile)
    ELSE IF delay = RenameNoticeDelay
         THEN Notice("Renaming", md.currentConflictFile, r.renTo)
    ELSE Notice("Conflict resolved : Accepted left", NoFile, NoFile)

TimerFire(i) ==
    /\ i \in 1..Len(res)
    /\ res[i].timers # {}
    \* timers started earlier with an equal or smaller delay run first
    /\ \A j \in 1..(i - 1) : \A d \in res[j].timers : d > Min(res[i].timers)
    /\ LET d == Min(res[i].timers)
           r == Emit(res[i], TimerNotice(res[i], d, modals[res[i].modal]))
       IN  res' = [res EXCEPT ![i] = [r EXCEPT !.timers = r.timers \ {d}]]
    /\ UNCHANGED <<store, modals, restCall>>

\* ------------------------------------------------------------------ vault
\* The store executes a pending delete: it removes the path when the file
\* is there; the promise rejects otherwise and nothing handles the
\* rejection.
ExecDelete(i) ==
    /\ i \in 1..Len(res)
    /\ res[i].del = "pending"
    /\ LET f  == res[i].delFile
           ok == Present(store, f)
       IN  /\ store' = IF ok THEN [store EXCEPT ![f] = Absent] ELSE store
           /\ res' = [res EXCEPT ![i].del = IF ok THEN "ok" ELSE "failed"]
    /\ UNCHANGED <<modals, restCall>>

\* The store executes a pending rename: it moves the content when the
\* source is there and the destination is free.
ExecRename(i) ==
    /\ i \in 1..Len(res)
    /\ res[i].ren = "pending"
    /\ LET f  == res[i].renFile
           to == res[i].renTo
           ok == Present(store, f) /\ ~Present(store, to)
       IN  /\ store' = IF ok THEN [store EXCEPT ![to] = store[f], ![f] = Absent]
                       ELSE store
           /\ res' = [res EXCEPT ![i].ren = IF ok THEN "ok" ELSE "failed"]
    /\ UNCHANGED <<modals, restCall>>

\* ----------------------------------------------------------- manual review
\* A plausible slip: the pane builder removes the conflict file it shows.
buildManualDiffPanesMoving(m, md) ==
    /\ modals' = [modals EXCEPT ![m] = [md EXCEPT !.panes = TRUE]]
    /\ store' = [store EXCEPT ![md.currentConflictFile] = Absent]
    /\ UNCHANGED <<res, restCall>>

\* buildManualDiffPanes: opens the conflict file, the original and their
\* diff in a popout window; it reads the vault and writes nothing.
buildManualDiffPanes(m, md) ==
    /\ modals' = [modals EXCEPT ![m] = [md EXCEPT !.panes = TRUE]]
    /\ UNCHANGED <<store, res, restCall>>

\* "Open files in new panes" onClick.
OpenPanes(m) ==
    /\ modals[m].st = "open"
    /\ ~modals[m].panes
    /\ buildManualDiffPanes(m, modals[m])

\* The colorblind toggle of the difference tab: set the flag, close the
\* popout window, this.open() (onOpen runs again, whatever the modal's
\* state), then buildManualDiffPanes() again.
PaneToggle(m) ==
    /\ modals[m].panes
    /\ LET tg == [modals[m] EXCEPT !.d2hColorBlind = ~modals[m].d2hColorBlind]
       IN  buildManualDiffPanes(m, onOpen(tg, store))

Next ==
    \/ \E m \in Modals, f \in FileRef : OpenModal(m, f)
    \/ \E m \in Modals : TryAgain(m)
    \/ \E m \in Modals, i \in 1..Cardinality(Markers) : SelectConflict(m, i)
    \/ \E m \in Modals : ToggleColorBlind(m)
    \/ \E m \in Modals : AcceptLeft(m)
    \/ \E m \in Modals : AcceptOriginal(m)
    \/ \E m \in Modals : OpenPanes(m)
    \/ \E m \in Modals : PaneToggle(m)
    \/ \E i \in 1..MaxRes : TimerFire(i)
    \/ \E i \in 1..MaxRes : ExecDelete(i)
    \/ \E i \in 1..MaxRes : ExecRename(i)

Spec == Init /\ [][Next]_vars

\* ------------------------------------------------------------- JSON values
Undefined == [class |-> "undefined"]

JStr(s) == [class |-> "string", text |-> s]

JArr(items) == [class |-> "array", items |-> items]

JObj(fields) == [class |-> "object", fields |-> fields]

\* object[key]
Get(o, k) ==
    IF o.class = "object" /\ k \in DOMAIN o.fields THEN o.fields[k] ELSE Undefined

\* new Error(text), as requestUrl rejects with
Err(text) == [class |-> "Error", message |-> JStr(text)]

\* new RestFailure(message): the failure keeps what it is given as message.
RestFailure(message) == [class |-> "RestFailure", message |-> message]

\* ------------------------------------------------------------- the daemon
PingEndpoint    == "/rest/system/ping"
FoldersEndpoint == "/rest/config/folders"
DevicesEndpoint == "/rest/config/devices"
ConfigEndpoint  == "/rest/config"
StatusEndpoint  == "/rest/system/status"

DeviceIDs == {"d1", "d2"}

FolderIDs == {"f1", "f2"}

DeviceRefJson == {JObj([deviceID |-> JStr(d)]) : d \in DeviceIDs}

DeviceRefLists ==
    {<<>>} \cup {<<d>> : d \in DeviceRefJson}
           \cup {<<JObj([deviceID |-> JStr("d1")]), JObj([deviceID |-> JStr("d2")])>>}

\* A folder object of the daemon; "path" or "devices" may be missing.
FolderJson ==
    {JObj([id |-> JStr(i), path |-> JStr("/vault"), devices |-> JArr(ds)]) :
        i \in FolderIDs, ds \in DeviceRefLists}
    \cup {JObj([id |-> JStr(i), devices |-> JArr(<<>>)]) : i \in FolderIDs}
    \cup {JObj([id |-> JStr("f1"), path |-> JStr("/vault")])}

RECURSIVE SeqsUpTo(_, _)
SeqsUpTo(S, n) ==
    IF n = 0 THEN {<<>>}
    ELSE LET shorter == SeqsUpTo(S, n - 1)
         IN  shorter \cup {Append(q, x) : q \in shorter, x \in S}

DeviceJson ==
    {JObj([deviceID |-> JStr(d), name |-> JStr("laptop")]) : d \in DeviceIDs}
    \cup {JObj([name |-> JStr("laptop")])}

\* The JSON bodies the daemon may answer with, per endpoint.
Bodies(endpoint) ==
    IF endpoint = PingEndpoint
    THEN {JObj([ping |-> JStr("pong")]), JObj([ping |-> JStr("gnop")]),
          JObj([pong |-> JStr("ping")]), JStr("pong")}
    ELSE IF endpoint = FoldersEndpoint
    THEN {JArr(q) : q \in SeqsUpTo(FolderJson, MaxFolders)}
            \cup {JObj([error |-> JStr("busy")])}
    ELSE IF endpoint = DevicesEndpoint
    THEN {JArr(q) : q \in SeqsUpTo(DeviceJson, 1)} \cup {JObj([error |-> JStr("busy")])}
    ELSE IF endpoint = ConfigEndpoint
    THEN {JObj([devices |-> JArr(ds), folders |-> JArr(fs)]) :
             fs \in SeqsUpTo({JObj([id |-> JStr("f1"), path |-> JStr("/vault"),
                                    devices |-> JArr(<<>>)]),
                              JObj([id |-> JStr("f1")])}, 1),
             ds \in SeqsUpTo(DeviceJson, 1)}
            \cup {JObj([folders |-> JArr(<<>>)])}
    ELSE {JObj([myID |-> JStr(d)]) : d \in DeviceIDs} \cup {JObj([uptime |-> JStr("1")])}

Statuses == {200, 304, 403, 500}

\* What the daemon does with one GET: the connection fails, or it answers
\* with a status and a body.  rejects: requestUrl rejects a status of 400
\* and above instead of resolving with the response.
Behaviours(endpoint) ==
    {[kind |-> "network", text |-> "net::ERR_CONNECTION_REFUSED"]}
    \cup {[kind |-> "http", status |-> st, json |-> b, rejects |-> FALSE] :
            st \in Statuses, b \in Bodies(endpoint)}
    \cup {[kind |-> "http", status |-> st, json |-> b, rejects |-> TRUE] :
            st \in {x \in Statuses : x >= 400}, b \in Bodies(endpoint)}

\* response.text: the body as sent, the serialization of its JSON value.
BodyText(b) == [class |-> "string", serialized |-> b]

\* ------------------------------------------------------ schema validation
RECURSIVE Flatten(_)
Flatten(ss) == IF ss = <<>> THEN <<>> ELSE Head(ss) \o Flatten(Tail(ss))

\* string(): one issue, naming the key, when the value is no string.
StringIssues(v, key) == IF v.class = "string" THEN <<>> ELSE <<key>>

DeviceRefIssues(v) ==
    IF v.class # "object" THEN <<"devices[]">>
    ELSE StringIssues(Get(v, "deviceID"), "devices[].deviceID")

\* SyncthingFolder: {id, path, devices: [{deviceID}]}
SyncthingFolder(v) ==
    IF v.class # "object" THEN <<"folder">>
    ELSE LET ds == Get(v, "devices")
         IN  StringIssues(Get(v, "id"), "id")
             \o StringIssues(Get(v, "path"), "path")
             \o (IF ds.class # "array" THEN <<"devices">>
                 ELSE Flatten([i \in 1..Len(ds.items) |-> DeviceRefIssues(ds.items[i])]))

\* SyncthingDevice: {deviceID, name}
SyncthingDevice(v) ==
    IF v.class # "object" THEN <<"device">>
    ELSE StringIssues(Get(v, "deviceID"), "deviceID")
         \o StringIssues(Get(v, "name"), "name")

\* array(SyncthingFolder)
FolderArray(v) ==
    IF v.class # "array" THEN <<"folders">>
    ELSE Flatten([i \in 1..Len(v.items) |-> SyncthingFolder(v.items[i])])

\* array(SyncthingDevice)
DeviceArray(v) ==
    IF v.class # "array" THEN <<"devices">>
    ELSE Flatten([i \in 1..Len(v.items) |-> SyncthingDevice(v.items[i])])

\* SyncthingConfiguration: {folders, devices}
SyncthingConfiguration(v) ==
    IF v.class # "object" THEN <<"configuration">>
    ELSE FolderArray(Get(v, "folders")) \o DeviceArray(Get(v, "devices"))

\* SyncthingSystemStatus: {myID}
SyncthingSystemStatus(v) ==
    IF v.class # "object" THEN <<"status">>
    ELSE StringIssues(Get(v, "myID"), "myID")

\* safeParseAsync(schema, input), given the schema's issues for the input
safeParseAsync(issues, input) ==
    [issues |-> issues, success |-> issues = <<>>, output |-> input]

\* result.issues.map((issue) => issue.message).join("\n")
JoinedIssues(issues) == [class |-> "string", lines |-> issues]

\* ------------------------------------------------------ SyncthingFromREST
Return(v, requests) == [kind |-> "return", requests |-> requests, value |-> v]

Throw(e, requests) == [kind |-> "throw", requests |-> requests, value |-> e]

\* requestUrl({url, method: "GET", headers}): the promise of the response.
requestUrl(b) ==
    IF b.kind = "network" THEN [value |-> Err(b.text), settled |-> "rejected"]
    ELSE IF b.rejects
    THEN [value |-> Err("Request failed"), settled |-> "rejected"]
    ELSE [value |-> [text |-> BodyText(b.json), status |-> b.status, json |-> b.json],
          settled |-> "resolved"]

\* requestEndpoint(endpoint): response.then(...).catch(...).  The catch also
\* receives what the then callback throws.
requestEndpoint(endpoint, b) ==
    LET response == requestUrl(b)
        then ==
            IF response.settled = "rejected" THEN response
            ELSE IF response.value.status >= 400
            THEN [value |-> RestFailure(response.value.text), settled |-> "rejected"]
            ELSE response
    IN  IF then.settled = "rejected"
        THEN Throw(RestFailure(then.value), <<endpoint>>)
        ELSE Return(then.value, <<endpoint>>)

\* Validate the body of a resolved request; a mismatch throws a RestFailure
\* of the joined issue messages.
Validated(response, issues) ==
    LET result == safeParseAsync(issues, response.value.json)
    IN  IF ~result.success
        THEN Throw(RestFailure(JoinedIssues(result.issues)), response.requests)
        ELSE Return(result.output, response.requests)

ping(b) ==
    LET response == requestEndpoint(PingEndpoint, b)
    IN  IF response.kind = "throw" THEN response
        ELSE Return(Get(response.value.json, "ping"), response.requests)

getAllFolders(b) ==
    LET response == requestEndpoint(FoldersEndpoint, b)
    IN  IF response.kind = "throw" THEN response
        ELSE Validated(response, FolderArray(response.value.json))

\* folder.devices.some((deviceInFolder) => deviceInFolder.deviceID === device.deviceID)
HasDevice(folder, device) ==
    LET ds == Get(folder, "devices").items
    IN  \E i \in 1..Len(ds) : Get(ds[i], "deviceID") = Get(device, "deviceID")

\* A plausible slip: every() in place of some().
getFoldersForDeviceEvery(device, b) ==
    LET folders == getAllFolders(b)
    IN  IF folders.kind = "throw" THEN folders
        ELSE Return(JArr(SelectSeq(folders.value.items,
                LAMBDA folder :
                    \A i \in 1..Len(Get(folder, "devices").items) :
                        Get(Get(folder, "devices").items[i], "deviceID")
                            = Get(device, "deviceID"))),
                    folders.requests)

getFoldersForDevice(device, b) ==
    LET folders == getAllFolders(b)
    IN  IF folders.kind = "throw" THEN folders
        ELSE Return(JArr(SelectSeq(folders.value.items,
                                   LAMBDA folder : HasDevice(folder, device))),
                    folders.requests)

getDevices(b) ==
    LET response == requestEndpoint(DevicesEndpoint, b)
    IN  IF response.kind = "throw" THEN response
        ELSE Validated(response, DeviceArray(response.value.json))

getConfiguration(b) ==
    LET response == requestEndpoint(ConfigEndpoint, b)
    IN  IF response.kind = "throw" THEN response
        ELSE Validated(response, SyncthingConfiguration(response.value.json))

getSystemStatus(b) ==
    LET response == requestEndpoint(StatusEndpoint, b)
    IN  IF response.kind = "throw" THEN response
        ELSE Validated(response, SyncthingSystemStatus(response.value.json))

\* ------------------------------------------------- SyncThingRepositoryImpl
\* getConfiguration, getDevices, getFolders, startSyncThing, stopSyncThing:
\* each throws new Error("Method not implemented.") and reaches no datasource.
RepositoryImpl(method) == Throw(Err("Method not implemented."), <<>>)

FacadeMethods ==
    {"getConfiguration", "getDevices", "getFolders", "startSyncThing", "stopSyncThing"}

\* The endpoint a facade method stands for.
FacadeEndpoint(method) ==
    IF method = "getConfiguration" THEN ConfigEndpoint
    ELSE IF method = "getDevices" THEN DevicesEndpoint
    ELSE IF method = "getFolders" THEN FoldersEndpoint
    ELSE PingEndpoint

\* --------------------------------------------------------- calls (actions)
Devices == {JObj([deviceID |-> JStr(d), name |-> JStr("laptop")]) : d \in DeviceIDs}

\* restCall after a call has settled: what was called, what the daemon did
\* and what the caller got.
Settled(layer, method, device, b, outcome) ==
    [method |-> method, pc |-> "done", device |-> device, layer |-> layer,
     outcome |-> outcome, daemon |-> b]

Ping ==
    /\ restCall.pc = "idle"
    /\ \E b \in Behaviours(PingEndpoint) :
          restCall' = Settled("rest", "ping", Undefined, b, ping(b))
    /\ UNCHANGED <<store, modals, res>>

GetAllFolders ==
    /\ restCall.pc = "idle"
    /\ \E b \in Behaviours(FoldersEndpoint) :
          restCall' = Settled("rest", "getAllFolders", Undefined, b, getAllFolders(b))
    /\ UNCHANGED <<store, modals, res>>

GetFoldersForDevice ==
    /\ restCall.pc = "idle"
    /\ \E b \in Behaviours(FoldersEndpoint), d \in Devices :
          restCall' = Settled("rest", "getFoldersForDevice", d, b,
                              getFoldersForDevice(d, b))
    /\ UNCHANGED <<store, modals, res>>

GetDevices ==
    /\ restCall.pc = "idle"
    /\ \E b \in Behaviours(DevicesEndpoint) :
          restCall' = Settled("rest", "getDevices", Undefined, b, getDevices(b))
    /\ UNCHANGED <<store, modals, res>>

GetConfiguration ==
    /\ restCall.pc = "idle"
    /\ \E b \in Behaviours(ConfigEndpoint) :
          restCall' = Settled("rest", "getConfiguration", Undefined, b,
                              getConfiguration(b))
    /\ UNCHANGED <<store, modals, res>>

GetSystemStatus ==
    /\ restCall.pc = "idle"
    /\ \E b \in Behaviours(StatusEndpoint) :
          restCall' = Settled("rest", "getSystemStatus", Undefined, b,
                              getSystemStatus(b))
    /\ UNCHANGED <<store, modals, res>>

\* A facade call, with the daemon as it would answer the method's request.
Facade ==
    /\ restCall.pc = "idle"
    /\ \E method \in FacadeMethods : \E b \in Behaviours(FacadeEndpoint(method)) :
          restCall' = Settled("facade", method, Undefined, b, RepositoryImpl(method))
    /\ UNCHANGED <<store, modals, res>>

NextRest ==
    \/ Ping
    \/ GetAllFolders
    \/ GetFoldersForDevice
    \/ GetDevices
    \/ GetConfiguration
    \/ GetSystemStatus
    \/ Facade

SpecRest == Init /\ [][NextRest]_vars

\* ================================================================== claims
Resolutions == 1..Len(res)

InFlight(i) == res[i].del = "pending" \/ res[i].ren = "pending"

ResolvedNotice == Notice("Conflict resolved : Accepted left", NoFile, NoFile)

\* C1: in every accept-left resolution the rename was issued only after the
\* delete had completed, with the target path free when the rename started.
C1_RenameAfterDeleteCompleted ==
    \A i \in Resolutions :
        (res[i].kind = "left" /\ res[i].ren # "none")
            => /\ res[i].delAtRename \in {"ok", "failed"}
               /\ res[i].targetFreeAtRename

\* C2: an accept-left resolution whose delete succeeded and whose rename
\* failed has, once all its callbacks have run, reported a filesystem
\* failure naming both paths and has not reported the conflict resolved.
C2_PartialFailureReported ==
    \A i \in Resolutions :
        (res[i].kind = "left" /\ res[i].del = "ok" /\ res[i].ren = "failed"
            /\ res[i].timers = {})
            => /\ \E n \in Range(res[i].notices) :
                    Notice("Failure : filesystem", res[i].delFile, res[i].renFile) = n
               /\ ResolvedNotice \notin Range(res[i].notices)

\* C3: an accept-original resolution never deletes the original file of the
\* group the modal showed when the button was clicked.
C3_AcceptOriginalKeepsOriginal ==
    \A i \in Resolutions :
        res[i].kind = "original" => res[i].delFile # res[i].original

\* C4: no two resolutions of the same conflict group have a delete or a
\* rename pending at the same time.
C4_OneResolutionInFlight ==
    \A i, j \in Resolutions :
        (i < j /\ res[i].original.base = res[j].original.base)
            => ~(InFlight(i) /\ InFlight(j))

\* C5: at the step that completes an accept-left resolution with both its
\* delete and its rename succeeded, the store holds the chosen file's text
\* at the original's path and no longer holds the conflict-marked name.
C5_AcceptChosenLands ==
    [][\A i \in Resolutions :
          (res[i].kind = "left" /\ InFlight(i)
              /\ res'[i].del = "ok" /\ res'[i].ren = "ok")
              => /\ store'[res[i].renTo] = res[i].chosenText
                 /\ ~Present(store', res[i].renFile)]_vars

\* C6: a step of the manual action (the panes open) or of a toggle (the
\* colorblind flag flips) changes no stored file and issues no delete and
\* no rename.
C6_ManualMutatesNothing ==
    [][(\E m \in Modals :
            \/ ~modals[m].panes /\ modals'[m].panes
            \/ modals[m].d2hColorBlind # modals'[m].d2hColorBlind)
        => (store' = store /\ res' = res)]_vars

\* C6 witness: the panes are open, their toggle was used, and a resolution
\* started since still has its delete pending.
C6_Witness ==
    \E m \in Modals :
        /\ modals[m].panes /\ modals[m].d2hColorBlind
        /\ \E i \in Resolutions : res[i].del = "pending"

\* ------------------------------------------------------------ REST claims
Done(layer) == restCall.pc = "done" /\ restCall.layer = layer

NonSuccess(b) == b.kind = "http" /\ (b.status < 200 \/ b.status > 299)

\* C7: a datasource call the daemon answered with a network error or a
\* non-2xx status throws a RestFailure whose message is the error text
\* (network error) or the response body (status), after one request.
C7_TransportFailureCarriesBody ==
    Done("rest") =>
        LET b == restCall.daemon
            o == restCall.outcome
        IN  (b.kind = "network" \/ NonSuccess(b))
                => /\ o.kind = "throw"
                   /\ o.value.class = "RestFailure"
                   /\ Len(o.requests) = 1
                   /\ IF b.kind = "network"
                      THEN o.value.message \in {Err(b.text), JStr(b.text)}
                      ELSE o.value.message = BodyText(b.json)

\* The schema of a method's resource; the ping resource is the literal
\* "pong", bare or as the value of the key "ping".
ResourceIssues(method, v) ==
    IF method = "ping"
    THEN (IF v = JStr("pong") \/ Get(v, "ping") = JStr("pong") THEN <<>> ELSE <<"ping">>)
    ELSE IF method \in {"getAllFolders", "getFoldersForDevice"} THEN FolderArray(v)
    ELSE IF method = "getDevices" THEN DeviceArray(v)
    ELSE IF method = "getConfiguration" THEN SyncthingConfiguration(v)
    ELSE SyncthingSystemStatus(v)

\* C8: a datasource call answered 2xx with a body that does not match the
\* resource's schema throws a RestFailure of the joined issue messages and
\* returns no value.
C8_EveryMethodValidates ==
    Done("rest") =>
        LET b == restCall.daemon
            o == restCall.outcome
        IN  (b.kind = "http" /\ ~NonSuccess(b)
                /\ ResourceIssues(restCall.method, b.json) # <<>>)
                => /\ o.kind = "throw"
                   /\ o.value =
                        RestFailure(JoinedIssues(ResourceIssues(restCall.method, b.json)))

\* C9: a facade call made while the daemon answers 403 throws a RestFailure
\* whose message is the response body, without a second request.
C9_FacadeReportsForbidden ==
    Done("facade") =>
        LET b == restCall.daemon
            o == restCall.outcome
        IN  (b.kind = "http" /\ b.status = 403)
                => /\ o.kind = "throw"
                   /\ o.value.class = "RestFailure"
                   /\ o.value.message = BodyText(b.json)
                   /\ Len(o.requests) <= 1

\* The folders of a list that name the device, in the list's order.
RECURSIVE FoldersNaming(_, _)
FoldersNaming(folders, device) ==
    IF folders = <<>> THEN <<>>
    ELSE LET ids == {Get(x, "deviceID") : x \in Range(Get(Head(folders), "devices").items)}
         IN  (IF Get(device, "deviceID") \in ids THEN <<Head(folders)>> ELSE <<>>)
             \o FoldersNaming(Tail(folders), device)

\* C10: getFoldersForDevice sends one request, to the folders endpoint; it
\* fails exactly as getAllFolders fails, and otherwise returns the folders
\* of getAllFolders that name the device, in the same order.
C10_FoldersForDeviceFilters ==
    (Done("rest") /\ restCall.method = "getFoldersForDevice") =>
        LET all == getAllFolders(restCall.daemon)
            o   == restCall.outcome
        IN  /\ o.requests = <<FoldersEndpoint>>
            /\ all.kind = "throw" => o = all
            /\ all.kind = "return" =>
                  /\ o.kind = "return"
                  /\ o.value = JArr(FoldersNaming(all.value.items, restCall.device))

\* C10 witness: of two folders answered, only the second names the device.
C10_Witness ==
    /\ Done("rest") /\ restCall.method = "getFoldersForDevice"
    /\ restCall.outcome.kind = "return"
    /\ Len(restCall.daemon.json.items) = 2
    /\ restCall.outcome.value = JArr(<<restCall.daemon.json.items[2]>>)
    /\ restCall.daemon.json.items[1] # restCall.daemon.json.items[2]

\* A delete or a rename of resolution i finishes in this step.
StepFinishes(i) ==
    \/ res[i].del = "pending" /\ res'[i].del # "pending"
    \* the rename
    \/ res[i].ren = "pending" /\ res'[i].ren # "pending"

\* C11: every delete and every rename of a resolution is issued after a
\* notification of that resolution was shown, and when it finishes a
\* notification of that resolution is still to be shown (all later
\* notifications come from the handler's pending timers).
C11_StepsBracketedByNotices ==
    [][/\ Len(res') > Len(res)
            => LET r == res'[Len(res')]
               IN  (r.del = "pending" \/ r.ren = "pending") => r.notices # <<>>
       /\ \A i \in Resolutions : StepFinishes(i) => res'[i].timers # {}]_vars

====
